---- MODULE Spec2Model ----
(***************************************************************************)
(* The four batch utilities of the repository as one state machine:        *)
(*   check_json_structure   (check_json_structure.py)                      *)
(*   excel_to_json_refined  (excel_to_json_refined.py)                     *)
(*   fix_json_complete      (fix_json_complete.py)                         *)
(*   generate_country_mapping, validate_mapping                            *)
(*                          (generate_country_mapping.py)                  *)
(* One call of one utility runs per behaviour.  Text is a sequence of      *)
(* one-character strings; a parsed JSON value is a record [t, s, items].   *)
(***************************************************************************)
EXTENDS Integers, Sequences, FiniteSets, TLC

\* Bounds of the model.
MaxValues == 2    \* values per generated JSON-like document
MaxRecords == 2   \* records in the data file of the mapping generator
MaxSheets == 2    \* sheets in a workbook

Max(S) == CHOOSE x \in S : \A y \in S : y <= x

(***************************************************************************)
(* JSON values as Python holds them after json.loads.                      *)
(***************************************************************************)
JNull == [t |-> "null", s |-> <<>>, items |-> <<>>]
JNaN == [t |-> "nan", s |-> <<>>, items |-> <<>>]
JInf == [t |-> "inf", s |-> <<>>, items |-> <<>>]
JNum(digits) == [t |-> "num", s |-> digits, items |-> <<>>]
JStr(chars) == [t |-> "str", s |-> chars, items |-> <<>>]
JArr(elems) == [t |-> "arr", s |-> <<>>, items |-> elems]
JObj(pairs) == [t |-> "obj", s |-> <<>>, items |-> pairs]

\* Values that are not results of a parse.
Pending == [t |-> "pending", s |-> <<>>, items |-> <<>>]
Absent == [t |-> "absent", s |-> <<>>, items |-> <<>>]

\* Python None is what json.loads gives for null.
None == JNull

(***************************************************************************)
(* Python dict: pairs <<key, value>> in insertion order; assigning to an   *)
(* existing key keeps its position and replaces its value.                 *)
(***************************************************************************)
DictKeys(d) == {d[n][1] : n \in 1..Len(d)}

DictHas(d, k) == \E n \in 1..Len(d) : d[n][1] = k

DictGet(d, k) == d[CHOOSE n \in 1..Len(d) : d[n][1] = k][2]

\* An assignment that keeps the value a key already has.
DictSetFirst(d, k, v) ==
  IF DictHas(d, k) THEN d ELSE Append(d, <<k, v>>)

DictSet(d, k, v) ==
  IF DictHas(d, k)
  THEN [n \in 1..Len(d) |-> IF d[n][1] = k THEN <<k, v>> ELSE d[n]]
  ELSE Append(d, <<k, v>>)

RECURSIVE DictFromPairs(_, _)
DictFromPairs(pairs, n) ==
  IF n = 0 THEN <<>>
  ELSE DictSet(DictFromPairs(pairs, n - 1), pairs[n][1], pairs[n][2])

(***************************************************************************)
(* Text and the regular expressions of fix_json_complete.                  *)
(***************************************************************************)
QUOTE == "\""
NaN == <<"N", "a", "N">>
Undefined == <<"u", "n", "d", "e", "f", "i", "n", "e", "d">>
Null == <<"n", "u", "l", "l">>
Infinity == <<"I", "n", "f", "i", "n", "i", "t", "y">>
ColonNull == <<":", " ">> \o Null

Quoted(q, tok) == <<q>> \o tok \o <<q>>

\* \s of the re module, on the characters that occur here.
IsSpace(c) == c \in {" ", "\n", "\r", "\t"}

StartsWith(text, i, tok) ==
  /\ i + Len(tok) - 1 <= Len(text)
  /\ \A k \in 1..Len(tok) : text[i + k - 1] = tok[k]

\* content.count('NaN') > 0
Contains(text, tok) == \E i \in 1..Len(text) : StartsWith(text, i, tok)

\* The first index >= i that does not hold white space (Len + 1 at the end).
RECURSIVE SkipSpace(_, _)
SkipSpace(text, i) ==
  IF i <= Len(text) /\ IsSpace(text[i]) THEN SkipSpace(text, i + 1) ELSE i

\* r':\s*TOK\s*T' with T one character of terms, tried at index i: the index
\* of the last character matched, 0 when there is no match at i.  Both \s*
\* are greedy, so of the possible ends the last one is taken.
MatchEnd(text, i, tok, terms) ==
  IF text[i] # ":" THEN 0
  ELSE LET j == SkipSpace(text, i + 1)
       IN IF ~StartsWith(text, j, tok) THEN 0
          ELSE LET k == j + Len(tok)
                   m == SkipSpace(text, k)
                   ends == {q \in k..m : q <= Len(text) /\ text[q] \in terms}
               IN IF ends = {} THEN 0 ELSE Max(ends)

\* re.sub(r':\s*TOK\s*(T)', r': null\1', text), from index i on.
RECURSIVE ReSubFrom(_, _, _, _)
ReSubFrom(text, i, tok, terms) ==
  IF i > Len(text) THEN <<>>
  ELSE LET e == MatchEnd(text, i, tok, terms)
       IN IF e > 0
          THEN ColonNull \o <<text[e]>> \o ReSubFrom(text, e + 1, tok, terms)
          ELSE <<text[i]>> \o ReSubFrom(text, i + 1, tok, terms)

ReSub(text, tok, terms) == ReSubFrom(text, 1, tok, terms)

\* re.sub(r'NaN', 'null', text), from index i on.
RECURSIVE ReplaceFrom(_, _, _, _)
ReplaceFrom(text, i, tok, repl) ==
  IF i > Len(text) THEN <<>>
  ELSE IF StartsWith(text, i, tok)
       THEN repl \o ReplaceFrom(text, i + Len(tok), tok, repl)
       ELSE <<text[i]>> \o ReplaceFrom(text, i + 1, tok, repl)

ReplaceAll(text, tok, repl) == ReplaceFrom(text, 1, tok, repl)

\* The index after the run of non-quote characters that starts at i.
RECURSIVE RunEnd(_, _)
RunEnd(text, i) ==
  IF i <= Len(text) /\ text[i] # QUOTE THEN RunEnd(text, i + 1) ELSE i

\* re.sub(r'[^"]*NaN[^"]*', 'null', text), from index i on: the leftmost
\* match starts where a quote-free run holding NaN starts and, both stars
\* being greedy, takes the whole run.
RECURSIVE AggressiveFrom(_, _)
AggressiveFrom(text, i) ==
  IF i > Len(text) THEN <<>>
  ELSE LET e == RunEnd(text, i)
       IN IF e > i /\ Contains(SubSeq(text, i, e - 1), NaN)
          THEN Null \o AggressiveFrom(text, e)
          ELSE <<text[i]>> \o AggressiveFrom(text, i + 1)

AggressiveClean(text) == AggressiveFrom(text, 1)

\* The substitutions without the catch-all.
CatchAllSkipped(text) == text

\* Lines 28-54: the ordered substitutions, the catch-all last.
CatchAll(text) == ReplaceAll(text, NaN, Null)

Patterns(text) ==
  LET p1 == ReSub(text, NaN, {",", "}"})
      p2 == ReSub(p1, Quoted(QUOTE, NaN), {",", "}"})
      p3 == ReSub(p2, Quoted("'", NaN), {",", "}"})
      p4 == ReSub(p3, NaN, {","})
      p5 == ReSub(p4, NaN, {"}"})
      p6 == ReSub(p5, NaN, {"\n"})
      p7 == ReSub(p6, NaN, {"\r"})
      u1 == ReSub(p7, Undefined, {",", "}"})
      u2 == ReSub(u1, Quoted(QUOTE, Undefined), {",", "}"})
  IN u2

Substitutions(text) == CatchAll(Patterns(text))

(***************************************************************************)
(* json.loads on text.  The characters that occur here admit strings       *)
(* without escapes, the digit 1, null and (as Python's parser accepts     *)
(* them) the constants NaN and Infinity; parse_constant tells whether the  *)
(* constants are accepted, so the same parser decides what strict JSON is. *)
(***************************************************************************)
Fail == [ok |-> FALSE, val |-> JNull, next |-> 0]
Got(v, n) == [ok |-> TRUE, val |-> v, next |-> n]

\* The index of the quote closing the string whose content starts at i;
\* 0 when the text ends first or a control character occurs (strict mode).
RECURSIVE StringEnd(_, _)
StringEnd(text, i) ==
  IF i > Len(text) THEN 0
  ELSE IF text[i] = QUOTE THEN i
  ELSE IF text[i] \in {"\n", "\r", "\t"} THEN 0
  ELSE StringEnd(text, i + 1)

RECURSIVE DigitsEnd(_, _)
DigitsEnd(text, i) ==
  IF i <= Len(text) /\ text[i] = "1" THEN DigitsEnd(text, i + 1) ELSE i

RECURSIVE ParseValue(_, _, _)
RECURSIVE ParseMembers(_, _, _, _)
RECURSIVE ParseElems(_, _, _, _)

\* JSONObject after the opening brace and white space: i is where a key
\* must start.
ParseMembers(text, i, acc, parse_constant) ==
  IF i > Len(text) \/ text[i] # QUOTE THEN Fail
  ELSE LET e == StringEnd(text, i + 1)
       IN IF e = 0 THEN Fail
          ELSE LET key == SubSeq(text, i + 1, e - 1)
                   c == SkipSpace(text, e + 1)
               IN IF c > Len(text) \/ text[c] # ":" THEN Fail
                  ELSE LET r == ParseValue(text, SkipSpace(text, c + 1), parse_constant)
                       IN IF ~r.ok THEN Fail
                          ELSE LET n == SkipSpace(text, r.next)
                                   got == DictSet(acc, key, r.val)
                               IN IF n > Len(text) THEN Fail
                                  ELSE IF text[n] = "}" THEN Got(JObj(got), n + 1)
                                  ELSE IF text[n] = ","
                                       THEN ParseMembers(text, SkipSpace(text, n + 1), got, parse_constant)
                                       ELSE Fail

\* JSONArray after the opening bracket and white space: i is where a value
\* must start.
ParseElems(text, i, acc, parse_constant) ==
  LET r == ParseValue(text, i, parse_constant)
  IN IF ~r.ok THEN Fail
     ELSE LET n == SkipSpace(text, r.next)
              got == Append(acc, r.val)
          IN IF n > Len(text) THEN Fail
             ELSE IF text[n] = "]" THEN Got(JArr(got), n + 1)
             ELSE IF text[n] = ","
                  THEN ParseElems(text, SkipSpace(text, n + 1), got, parse_constant)
                  ELSE Fail

\* scan_once at index i.
ParseValue(text, i, parse_constant) ==
  IF i > Len(text) THEN Fail
  ELSE IF text[i] = QUOTE
       THEN LET e == StringEnd(text, i + 1)
            IN IF e = 0 THEN Fail ELSE Got(JStr(SubSeq(text, i + 1, e - 1)), e + 1)
  ELSE IF text[i] = "{"
       THEN LET n == SkipSpace(text, i + 1)
            IN IF n <= Len(text) /\ text[n] = "}" THEN Got(JObj(<<>>), n + 1)
               ELSE ParseMembers(text, n, <<>>, parse_constant)
  ELSE IF text[i] = "["
       THEN LET n == SkipSpace(text, i + 1)
            IN IF n <= Len(text) /\ text[n] = "]" THEN Got(JArr(<<>>), n + 1)
               ELSE ParseElems(text, n, <<>>, parse_constant)
  ELSE IF StartsWith(text, i, Null) THEN Got(JNull, i + Len(Null))
  ELSE IF text[i] = "1"
       THEN LET e == DigitsEnd(text, i) IN Got(JNum(SubSeq(text, i, e - 1)), e)
  ELSE IF parse_constant /\ StartsWith(text, i, NaN) THEN Got(JNaN, i + Len(NaN))
  ELSE IF parse_constant /\ StartsWith(text, i, Infinity) THEN Got(JInf, i + Len(Infinity))
  ELSE Fail

\* json.loads(text): white space, one value, white space, end of text.
Decode(text, parse_constant) ==
  LET r == ParseValue(text, SkipSpace(text, 1), parse_constant)
  IN IF r.ok /\ SkipSpace(text, r.next) = Len(text) + 1 THEN r ELSE Fail

JsonLoads(text) == Decode(text, TRUE)

(***************************************************************************)
(* json.dump(data, f, indent=2, ensure_ascii=False, default=str)           *)
(***************************************************************************)
RECURSIVE Indent(_)
Indent(lvl) == IF lvl = 0 THEN <<>> ELSE <<" ", " ">> \o Indent(lvl - 1)

RECURSIVE DumpValue(_, _)
RECURSIVE DumpItems(_, _, _, _)

\* The items of a list (keyed = FALSE) or of a dict (keyed = TRUE) from the
\* n-th on, each on a line of its own.
DumpItems(v, n, lvl, keyed) ==
  (IF n > 1 THEN <<",">> ELSE <<>>) \o <<"\n">> \o Indent(lvl)
  \o (IF keyed
      THEN Quoted(QUOTE, v.items[n][1]) \o <<":", " ">> \o DumpValue(v.items[n][2], lvl)
      ELSE DumpValue(v.items[n], lvl))
  \o (IF n < Len(v.items) THEN DumpItems(v, n + 1, lvl, keyed) ELSE <<>>)

DumpValue(v, lvl) ==
  IF v.t = "null" THEN Null
  ELSE IF v.t = "nan" THEN NaN
  ELSE IF v.t = "inf" THEN Infinity
  ELSE IF v.t = "num" THEN v.s
  ELSE IF v.t = "str" THEN Quoted(QUOTE, v.s)
  ELSE IF v.t = "arr"
       THEN IF v.items = <<>> THEN <<"[", "]">>
            ELSE <<"[">> \o DumpItems(v, 1, lvl + 1, FALSE) \o <<"\n">> \o Indent(lvl) \o <<"]">>
  ELSE IF v.items = <<>> THEN <<"{", "}">>
       ELSE <<"{">> \o DumpItems(v, 1, lvl + 1, TRUE) \o <<"\n">> \o Indent(lvl) \o <<"}">>

JsonDumps(v) == DumpValue(v, 0)

\* len(data) raises TypeError unless data is a dict, a list or a string.
HasLen(v) == v.t \in {"obj", "arr", "str"}

(***************************************************************************)
(* The input texts: JSON-like documents of one to MaxValues values, each   *)
(* value a placeholder in one of the contexts the patterns name, a string  *)
(* that is or holds the placeholder text, or a number; wrapped as an       *)
(* object, an array, an array of one record, an object whose second member *)
(* is the array of the values after the first, or left bare.               *)
(***************************************************************************)
ValueTexts ==
  { NaN,
    NaN \o <<"\n">>,
    NaN \o <<"\r">>,
    Quoted("'", NaN),
    Quoted(QUOTE, NaN),
    Quoted(QUOTE, <<"a">> \o NaN),
    Undefined,
    Quoted(QUOTE, Undefined),
    NaN \o <<"a", "N">>,
    Infinity,
    <<"1">> }

KeyNames == <<"k", "j", "h", "g">>

Member(n, v) == Quoted(QUOTE, <<KeyNames[n]>>) \o <<":">> \o v

RECURSIVE Joined(_, _, _)
Joined(vals, n, keyed) ==
  (IF n > 1 THEN <<",">> ELSE <<>>)
  \o (IF keyed THEN Member(n, vals[n]) ELSE vals[n])
  \o (IF n < Len(vals) THEN Joined(vals, n + 1, keyed) ELSE <<>>)

\* A JSON array of the given element texts.
ListText(elems) ==
  IF elems = <<>> THEN <<"[", "]">>
  ELSE <<"[">> \o Joined(elems, 1, FALSE) \o <<"]">>

Document(wrap, vals) ==
  IF wrap = "obj" THEN <<"{">> \o Joined(vals, 1, TRUE) \o <<"}">>
  ELSE IF wrap = "arr" THEN <<"[">> \o Joined(vals, 1, FALSE) \o <<"]">>
  ELSE IF wrap = "recs" THEN <<"[", "{">> \o Joined(vals, 1, TRUE) \o <<"}", "]">>
  ELSE IF wrap = "nest"
       THEN <<"{">> \o Member(1, vals[1]) \o <<",">>
            \o Member(2, ListText(Tail(vals))) \o <<"}">>
  ELSE vals[1]

ValueLists == UNION {[1..n -> ValueTexts] : n \in 1..MaxValues}

Documents ==
  {Document(w, vals) : w \in {"obj", "arr", "recs", "nest"}, vals \in ValueLists}
  \cup {Document("top", <<v>>) : v \in ValueTexts}

(***************************************************************************)
(* Files, exceptions and except clauses.                                   *)
(***************************************************************************)
NoFile == [exists |-> FALSE, text |-> <<>>]
File(text) == [exists |-> TRUE, text |-> text]

\* A file opened with mode 'w' whose json.dump raised: truncated, holding at
\* most a prefix of the document.
Truncated == File(<<>>)

\* Text no JSON parser accepts.
Garbage == <<"[", "{">>

Exc(cls, msg) == [cls |-> cls, msg |-> msg]
NoExc == Exc("none", "")

\* The base class of each exception class that can be raised here.
Base(cls) ==
  CASE cls = "FileNotFoundError" -> "OSError"
    [] cls = "JSONDecodeError" -> "ValueError"
    [] cls = "UnicodeEncodeError" -> "ValueError"
    [] cls \in {"OSError", "ValueError", "TypeError", "AttributeError"} -> "Exception"
    [] OTHER -> "BaseException"

RECURSIVE IsInstance(_, _)
IsInstance(cls, of) ==
  IF cls = of THEN TRUE
  ELSE IF cls = "BaseException" THEN FALSE
  ELSE IsInstance(Base(cls), of)

\* The first except clause that catches cls; 0 when none does.
Catch(clauses, cls) ==
  IF \E n \in 1..Len(clauses) : IsInstance(cls, clauses[n])
  THEN CHOOSE n \in 1..Len(clauses) :
         /\ IsInstance(cls, clauses[n])
         /\ \A m \in 1..(n - 1) : ~IsInstance(cls, clauses[m])
  ELSE 0

\* A try statement that names the errors of reading and parsing only.
CheckClausesNarrow == <<"OSError", "JSONDecodeError">>

\* The except clauses of each try statement.
CheckClauses == <<"Exception">>
ExcelClauses == <<"Exception">>
FixClauses == <<"Exception">>
FixParseClauses == <<"JSONDecodeError">>
FixRetryClauses == <<"JSONDecodeError">>
FixVerifyClauses == <<"Exception">>
MapClauses == <<"FileNotFoundError", "JSONDecodeError", "Exception">>
ValidateClauses == <<"Exception">>

VARIABLES
  op,                    \* the utility that runs
  pc,                    \* its position
  inFile,                \* the file it reads
  outFile,               \* the file it writes
  outFile0,              \* the output file as it was before the call
  ret,                   \* the value returned (Pending before the return)
  escaped,               \* an exception left the function
  handler,               \* the except clause that reported the failure
  raised,                \* the exception that ended the call
  fault,                 \* the I/O fault that occurred
  trace,                 \* fix_json_complete: the steps taken
  content,               \* fix_json_complete: the text being cleaned
  data,                  \* the parsed input
  idx,                   \* generate_country_mapping: the record the loop is at
  country_to_region,     \* dict country -> region
  region_to_countries,   \* dict region -> set of countries
  country_region_pairs,  \* set of (country, region)
  valid,                 \* validate_mapping: the value returned
  branch                 \* validate_mapping: the path taken

vars ==
  <<op, pc, inFile, outFile, outFile0, ret, escaped, handler, raised, fault,
    trace, content, data, idx, country_to_region, region_to_countries,
    country_region_pairs, valid, branch>>

fixVars == <<trace, content>>
mapVars == <<idx, country_to_region, region_to_countries, country_region_pairs>>
valVars == <<valid, branch>>
outcome == <<ret, escaped, handler, raised>>

\* What every call starts from.
Start(o, p, in, out) ==
  /\ op = o /\ pc = p /\ inFile = in /\ outFile = out /\ outFile0 = out
  /\ ret = Pending /\ escaped = FALSE /\ handler = "none" /\ raised = NoExc
  /\ fault = "none" /\ trace = <<>> /\ content = <<>> /\ data = Pending
  /\ idx = 0 /\ country_to_region = <<>> /\ region_to_countries = <<>>
  /\ country_region_pairs = {} /\ valid = "pending" /\ branch = "none"

\* An exception raised under a try statement with these clauses: a clause
\* that catches it reports and returns None, otherwise it leaves the call.
Raise(clauses, exc) ==
  LET n == Catch(clauses, exc.cls)
  IN /\ raised' = exc
     /\ handler' = IF n = 0 THEN "none" ELSE clauses[n]
     /\ escaped' = (n = 0)
     /\ ret' = IF n = 0 THEN Pending ELSE None
     /\ pc' = "done"

Return(v) ==
  /\ ret' = v /\ pc' = "done"
  /\ UNCHANGED <<escaped, handler, raised>>

(***************************************************************************)
(* fix_json_complete(input_file)                                           *)
(***************************************************************************)
OldText == <<QUOTE, "o", QUOTE>>

InitFix ==
  \E in \in {NoFile} \cup {File(d) : d \in Documents},
     out \in {NoFile, File(OldText)} :
    Start("fix", "read", in, out)

\* Lines 16-23.
FixRead ==
  /\ op = "fix" /\ pc = "read"
  /\ IF inFile.exists
     THEN /\ content' = inFile.text
          /\ pc' = "substitute"
          /\ UNCHANGED outcome
     ELSE /\ Raise(FixClauses, Exc("FileNotFoundError", "input"))
          /\ UNCHANGED content
  /\ UNCHANGED <<op, inFile, outFile, outFile0, fault, trace, data, mapVars, valVars>>

\* Lines 28-58.
FixSubstitute ==
  /\ op = "fix" /\ pc = "substitute"
  /\ content' = Substitutions(content)
  /\ trace' = Append(trace, "substitutions")
  /\ pc' = "parse"
  /\ UNCHANGED <<op, inFile, outFile, outFile0, fault, data, mapVars, valVars, outcome>>

\* Lines 61-68: json.loads, then len(data) for the report.
FixParse ==
  /\ op = "fix" /\ pc = "parse"
  /\ trace' = Append(trace, "parse")
  /\ LET r == JsonLoads(content)
         exc == IF ~r.ok THEN Exc("JSONDecodeError", "parse")
                ELSE IF ~HasLen(r.val) THEN Exc("TypeError", "len")
                ELSE NoExc
     IN IF exc = NoExc
        THEN /\ data' = r.val
             /\ pc' = "write"
             /\ UNCHANGED outcome
        ELSE IF Catch(FixParseClauses, exc.cls) > 0
        THEN /\ pc' = "aggressive"
             /\ UNCHANGED <<data, outcome>>
        ELSE /\ Raise(FixClauses, exc)
             /\ UNCHANGED data
  /\ UNCHANGED <<op, inFile, outFile, outFile0, fault, content, mapVars, valVars>>

\* Lines 71-77.
FixAggressive ==
  /\ op = "fix" /\ pc = "aggressive"
  /\ content' = AggressiveClean(content)
  /\ trace' = Append(trace, "aggressive")
  /\ pc' = "retry"
  /\ UNCHANGED <<op, inFile, outFile, outFile0, fault, data, mapVars, valVars, outcome>>

\* A retry that goes back to the aggressive pass when the parse fails again.
FixRetryAgain ==
  /\ op = "fix" /\ pc = "retry"
  /\ trace' = Append(trace, "parse")
  /\ LET r == JsonLoads(content)
     IN IF r.ok
        THEN /\ data' = r.val
             /\ pc' = "write"
        ELSE /\ pc' = "aggressive"
             /\ UNCHANGED data
  /\ UNCHANGED <<op, inFile, outFile, outFile0, fault, content, mapVars, valVars, outcome>>

\* Lines 79-84.
FixRetry ==
  /\ op = "fix" /\ pc = "retry"
  /\ trace' = Append(trace, "parse")
  /\ LET r == JsonLoads(content)
     IN IF r.ok
        THEN /\ data' = r.val
             /\ pc' = "write"
             /\ UNCHANGED outcome
        ELSE IF Catch(FixRetryClauses, "JSONDecodeError") > 0
        THEN /\ Return(None)
             /\ UNCHANGED data
        ELSE /\ Raise(FixClauses, Exc("JSONDecodeError", "parse"))
             /\ UNCHANGED data
  /\ UNCHANGED <<op, inFile, outFile, outFile0, fault, content, mapVars, valVars>>

\* The faults of writing a file: open(..., 'w') fails and leaves the file
\* alone, or a write of json.dump fails after open has truncated it.
WriteFaults == {"none", "open", "dump"}

\* Lines 87-94.
FixWrite ==
  /\ op = "fix" /\ pc = "write"
  /\ trace' = Append(trace, "write")
  /\ \E f \in WriteFaults :
       /\ fault' = f
       /\ IF f = "none"
          THEN /\ outFile' = File(JsonDumps(data))
               /\ pc' = "verify"
               /\ UNCHANGED outcome
          ELSE /\ outFile' = IF f = "dump" THEN Truncated ELSE outFile
               /\ Raise(FixClauses, Exc("OSError", f))
  /\ UNCHANGED <<op, inFile, outFile0, content, data, mapVars, valVars>>

\* Lines 97-104: the file is read back; a failure is reported, the file stays.
FixVerify ==
  /\ op = "fix" /\ pc = "verify"
  /\ trace' = Append(trace, "verify")
  /\ \E f \in {"none", "read"} :
       /\ fault' = f
       /\ LET r == JsonLoads(outFile.text)
              exc == IF f = "read" THEN Exc("OSError", f)
                     ELSE IF ~r.ok THEN Exc("JSONDecodeError", "verify")
                     ELSE IF ~HasLen(r.val) THEN Exc("TypeError", "len")
                     ELSE NoExc
          IN IF exc = NoExc THEN Return(data)
             ELSE IF Catch(FixVerifyClauses, exc.cls) > 0
             THEN /\ Return(None)
             ELSE Raise(FixClauses, exc)
  /\ UNCHANGED <<op, inFile, outFile, outFile0, content, data, mapVars, valVars>>

NextFix == FixRead \/ FixSubstitute \/ FixParse \/ FixAggressive \/ FixRetry \/ FixWrite \/ FixVerify

SpecFix == InitFix /\ [][NextFix]_vars

(***************************************************************************)
(* generate_country_mapping(data_file, output_file), validate_mapping      *)
(* Field names and the two keys of the mapping file are single symbols of  *)
(* the text; country and region names are spelled out character by         *)
(* character.                                                              *)
(***************************************************************************)
CountryKey == <<"Country">>
RegionKey == <<"Region">>
R2CKey == <<"region_to_countries">>
C2RKey == <<"country_to_region">>

\* The code point of a character of a country or region name.
Ord(c) ==
  CASE c = " " -> 32
    [] c = "A" -> 65
    [] c = "E" -> 69
    [] c = "K" -> 75
    [] c = "P" -> 80
    [] OTHER -> 0

\* a < b for Python strings.
RECURSIVE StrLess(_, _)
StrLess(a, b) ==
  IF b = <<>> THEN FALSE
  ELSE IF a = <<>> THEN TRUE
  ELSE IF Ord(Head(a)) # Ord(Head(b)) THEN Ord(Head(a)) < Ord(Head(b))
  ELSE StrLess(Tail(a), Tail(b))

\* sorted(list(countries))
RECURSIVE Sorted(_)
Sorted(S) ==
  IF S = {} THEN <<>>
  ELSE LET least == CHOOSE x \in S : \A y \in S \ {x} : StrLess(x, y)
       IN <<least>> \o Sorted(S \ {least})

\* str.strip()
RECURSIVE LStrip(_)
LStrip(chars) ==
  IF chars # <<>> /\ IsSpace(Head(chars)) THEN LStrip(Tail(chars)) ELSE chars

RECURSIVE RStrip(_)
RStrip(chars) ==
  IF chars # <<>> /\ IsSpace(chars[Len(chars)])
  THEN RStrip(SubSeq(chars, 1, Len(chars) - 1))
  ELSE chars

Strip(chars) == LStrip(RStrip(chars))

\* record.get(key, '')
Get(record, key) ==
  IF DictHas(record.items, key) THEN DictGet(record.items, key) ELSE JStr(<<>>)

\* The values a Country or a Region field of the data file holds: none (the
\* field is absent), null, or a string.
CountryTexts == {<<>>, Null, Quoted(QUOTE, <<" ">>), Quoted(QUOTE, <<" ", "K">>), Quoted(QUOTE, <<"P">>)}
RegionTexts == {<<>>, Null, Quoted(QUOTE, <<"A", " ">>), Quoted(QUOTE, <<"E">>)}

FieldText(key, v) == IF v = <<>> THEN <<>> ELSE Quoted(QUOTE, key) \o <<":">> \o v

RecordText(c, r) ==
  <<"{">> \o FieldText(CountryKey, c)
  \o (IF c # <<>> /\ r # <<>> THEN <<",">> ELSE <<>>)
  \o FieldText(RegionKey, r) \o <<"}">>

\* The elements of the data file: records, and a number where a record
\* should be.
ElementTexts == {RecordText(c, r) : c \in CountryTexts, r \in RegionTexts} \cup {<<"1">>}

ElementLists == UNION {[1..n -> ElementTexts] : n \in 0..MaxRecords}

DataFiles ==
  {NoFile, File(Garbage), File(<<"{", "}">>)}
  \cup {File(ListText(elems)) : elems \in ElementLists}

\* A mapping as json.dump gets it.
StrList(seq) == JArr([n \in 1..Len(seq) |-> JStr(seq[n])])

Mapping(r2c, c2r) ==
  JObj(<< <<R2CKey, JObj([n \in 1..Len(r2c) |-> <<r2c[n][1], StrList(r2c[n][2])>>])>>,
          <<C2RKey, JObj([n \in 1..Len(c2r) |-> <<c2r[n][1], JStr(c2r[n][2])>>])>> >>)

\* Mapping files found before the call: one whose regions list a country
\* that the country table lacks, one without the country table.
OldDiscrepant ==
  File(JsonDumps(Mapping(<< <<<<"A">>, << <<"K">>, <<"P">> >> >> >>, << <<<<"K">>, <<"A">> >> >>)))

OldMissingKey == File(JsonDumps(JObj(<< <<R2CKey, JObj(<<>>)>> >>)))

InitMap ==
  \/ \E in \in DataFiles, out \in {NoFile, OldDiscrepant} : Start("map", "load", in, out)
  \/ \E out \in {OldMissingKey, File(Garbage)} : Start("map", "load", NoFile, out)

\* Lines 20-32.
MapLoad ==
  /\ op = "map" /\ pc = "load"
  /\ LET r == JsonLoads(inFile.text)
         exc == IF ~inFile.exists THEN Exc("FileNotFoundError", "not found")
                ELSE IF ~r.ok THEN Exc("JSONDecodeError", "Invalid JSON")
                ELSE IF r.val.t # "arr" THEN Exc("ValueError", "Data must be a list of records")
                ELSE NoExc
     IN IF exc = NoExc
        THEN /\ data' = r.val
             /\ idx' = 1
             /\ pc' = "loop"
             /\ UNCHANGED outcome
        ELSE /\ Raise(MapClauses, exc)
             /\ UNCHANGED <<data, idx>>
  /\ UNCHANGED <<op, inFile, outFile, outFile0, fault, fixVars, valVars,
                 country_to_region, region_to_countries, country_region_pairs>>

\* An assignment of a fresh set where the code adds to the region's set.
AddCountryOverwrite(r2c, region, country) == DictSet(r2c, region, {country})

\* region_to_countries[region].add(country) on a defaultdict(set)
AddCountry(r2c, region, country) ==
  DictSet(r2c, region, (IF DictHas(r2c, region) THEN DictGet(r2c, region) ELSE {}) \cup {country})

\* Lines 34-41, one record.
MapRecord ==
  /\ op = "map" /\ pc = "loop" /\ idx <= Len(data.items)
  /\ LET record == data.items[idx]
         c == Get(record, CountryKey)
         r == Get(record, RegionKey)
         exc == IF record.t # "obj" THEN Exc("AttributeError", "get")
                ELSE IF c.t # "str" \/ r.t # "str" THEN Exc("AttributeError", "strip")
                ELSE NoExc
         country == Strip(c.s)
         region == Strip(r.s)
     IN IF exc # NoExc
        THEN /\ Raise(MapClauses, exc)
             /\ UNCHANGED mapVars
        ELSE /\ idx' = idx + 1
             /\ UNCHANGED <<pc, outcome>>
             /\ IF country # <<>> /\ region # <<>>
                THEN /\ country_region_pairs' = country_region_pairs \cup {<<country, region>>}
                     /\ country_to_region' = DictSet(country_to_region, country, region)
                     /\ region_to_countries' = AddCountry(region_to_countries, region, country)
                ELSE UNCHANGED <<country_to_region, region_to_countries, country_region_pairs>>
  /\ UNCHANGED <<op, inFile, outFile, outFile0, fault, fixVars, valVars, data>>

\* Lines 44-47.
Freeze(r2c) == [n \in 1..Len(r2c) |-> <<r2c[n][1], Sorted(r2c[n][2])>>]

\* Lines 44-70.
MapWrite ==
  /\ op = "map" /\ pc = "loop" /\ idx > Len(data.items)
  /\ LET mapping == Mapping(Freeze(region_to_countries), country_to_region)
     IN \E f \in WriteFaults :
          /\ fault' = f
          /\ IF f = "none"
             THEN /\ outFile' = File(JsonDumps(mapping))
                  /\ region_to_countries' = Freeze(region_to_countries)
                  /\ Return(mapping)
             ELSE /\ outFile' = IF f = "dump" THEN Truncated ELSE outFile
                  /\ Raise(MapClauses, Exc("OSError", f))
                  /\ UNCHANGED region_to_countries
  /\ UNCHANGED <<op, inFile, outFile0, fixVars, valVars, data, idx,
                 country_to_region, country_region_pairs>>

\* key in mapping, for whatever json.load returned: "yes", "no", or "error"
\* for the TypeError of a value that is no container.
In(key, v) ==
  IF v.t = "obj" THEN (IF DictHas(v.items, key) THEN "yes" ELSE "no")
  ELSE IF v.t = "arr"
       THEN (IF \E n \in 1..Len(v.items) : v.items[n] = JStr(key) THEN "yes" ELSE "no")
  ELSE IF v.t = "str" THEN (IF Contains(v.s, key) THEN "yes" ELSE "no")
  ELSE "error"

\* set.update(countries) raises TypeError when countries is not iterable or
\* holds an unhashable element.
CanUpdate(v) ==
  /\ v.t \in {"arr", "obj", "str"}
  /\ v.t = "arr" => \A n \in 1..Len(v.items) : v.items[n].t \notin {"arr", "obj"}

\* What set.update(countries) adds.
Elements(v) ==
  IF v.t = "arr" THEN {v.items[n] : n \in 1..Len(v.items)}
  ELSE IF v.t = "obj" THEN {JStr(k) : k \in DictKeys(v.items)}
  ELSE {JStr(<<v.s[n]>>) : n \in 1..Len(v.s)}

\* Lines 91-130: [valid, branch] of validate_mapping on a file.
ValidateFile(file) ==
  LET r == JsonLoads(file.text)
      error == [valid |-> IF Catch(ValidateClauses, "Exception") > 0 THEN "False" ELSE "raised",
                branch |-> "error"]
      missing == [valid |-> "False", branch |-> "missing key"]
  IN IF ~file.exists \/ ~r.ok THEN error
     ELSE IF In(R2CKey, r.val) = "error" THEN error
     ELSE IF In(R2CKey, r.val) = "no" THEN missing
     ELSE IF In(C2RKey, r.val) = "no" THEN missing
     ELSE IF r.val.t # "obj" THEN error
     ELSE LET r2c == DictGet(r.val.items, R2CKey)
              c2r == DictGet(r.val.items, C2RKey)
          IN IF r2c.t # "obj" \/ c2r.t # "obj" THEN error
             ELSE IF \E n \in 1..Len(r2c.items) : ~CanUpdate(r2c.items[n][2]) THEN error
             ELSE LET all_countries_in_regions ==
                        UNION {Elements(r2c.items[n][2]) : n \in 1..Len(r2c.items)}
                      all_countries_in_mapping == {JStr(k) : k \in DictKeys(c2r.items)}
                  IN [valid |-> "True",
                      branch |-> IF all_countries_in_regions # all_countries_in_mapping
                                 THEN "discrepancy" ELSE "consistent"]

\* validate_mapping(output_file), called once generate_country_mapping is over.
Validate ==
  /\ op = "map" /\ pc = "done"
  /\ pc' = "validated"
  /\ valid' = ValidateFile(outFile).valid
  /\ branch' = ValidateFile(outFile).branch
  /\ UNCHANGED <<op, inFile, outFile, outFile0, fault, fixVars, mapVars, data, outcome>>

NextMap == MapLoad \/ MapRecord \/ MapWrite \/ Validate

SpecMap == InitMap /\ [][NextMap]_vars

(***************************************************************************)
(* check_json_structure(filename)                                          *)
(***************************************************************************)
\* Shapes the documents above lack: a mapping of sheets, nested lists, empty
\* containers.
NestedTexts ==
  { <<"{", "}">>,
    <<"[", "]">>,
    <<"{", QUOTE, "k", QUOTE, ":", "[", "{", QUOTE, "j", QUOTE, ":", "1", "}", "]", "}">>,
    <<"{", QUOTE, "k", QUOTE, ":", "[", "1", "]", "}">>,
    <<"{", QUOTE, "k", QUOTE, ":", "[", "]", "}">>,
    <<"[", "[", "1", "]", "]">> }

InitCheck ==
  \E in \in {NoFile, File(Garbage)} \cup {File(d) : d \in Documents \cup NestedTexts} :
    Start("check", "check", in, NoFile)

\* Lines 12-46: the exception the report of the shape raises, if any.
ShapeExc(v) ==
  IF v.t = "obj" /\ v.items # <<>>
  THEN LET first_value == v.items[1][2]
       IN IF ~HasLen(first_value) THEN Exc("TypeError", "len")
          ELSE IF first_value.t = "arr" /\ first_value.items # <<>>
                  /\ first_value.items[1].t # "obj"
               THEN Exc("AttributeError", "keys")
          ELSE NoExc
  ELSE IF v.t = "arr" /\ v.items # <<>> /\ v.items[1].t # "obj"
       THEN Exc("AttributeError", "keys")
  ELSE NoExc

\* Lines 5-52.
CheckStructure ==
  /\ op = "check" /\ pc = "check"
  /\ LET r == JsonLoads(inFile.text)
         exc == IF ~inFile.exists THEN Exc("FileNotFoundError", "not found")
                ELSE IF ~r.ok THEN Exc("JSONDecodeError", "parse")
                ELSE ShapeExc(r.val)
     IN IF exc = NoExc
        THEN /\ data' = r.val
             /\ Return(r.val)
        ELSE /\ Raise(CheckClauses, exc)
             /\ UNCHANGED data
  /\ UNCHANGED <<op, inFile, outFile, outFile0, fault, fixVars, mapVars, valVars>>

NextCheck == CheckStructure

(***************************************************************************)
(* excel_to_json_refined(excel_file)                                       *)
(* A workbook is a sequence of sheets, a sheet its column labels and its   *)
(* rows; a label is a string or, for a header cell holding a date, a       *)
(* datetime.                                                               *)
(***************************************************************************)
Label(name) == JStr(<<name>>)
DateLabel == [t |-> "datetime", s |-> <<"2024">>, items |-> <<>>]

\* Lines 15-25.
column_mapping ==
  << <<Label("Please indicate the maturity stage of your solution."), Label("Maturity stage")>>,
     <<Label("If the solution has already been implemented, please specify the location(s). Alternatively, please enter \"not applicable\"."), Label("Implementation location(s)")>>,
     <<Label("If the solution has already been implemented, please specify the related timeline(s). Alternatively, please enter \"not applicable\"."), Label("Implementation timeline(s)")>>,
     <<Label("What is the estimated duration to pilot your solution in a new geography?"), Label("Duration to pilot in a new geography")>>,
     <<Label("Which SDGs are addressed by your solution?"), Label("SDGs addressed")>>,
     <<Label("What is the desired impact of your solution?"), Label("Desired impact")>>,
     <<Label("What are the key technology(ies) used for your solution?"), Label("Key technologies")>>,
     <<Label("What are the unique/differentiated characteristics of your solution?"), Label("Unique Characteristics")>>,
     <<Label("How does your solution contribute to create sustainable, systemic change? "), Label("Sustainable Change")>> >>

SheetNames == <<"s1", "s2", "s3", "s4">>

ColumnSets ==
  { <<Label("Country")>>,
    <<Label("Which SDGs are addressed by your solution?"), Label("Country")>>,
    <<DateLabel, Label("Country")>> }

\* No row, a row of text cells, a row of empty cells (NaN to pandas).
RowSets(cols) ==
  { <<>>,
    <<[n \in 1..Len(cols) |-> JStr(<<"v">>)]>>,
    <<[n \in 1..Len(cols) |-> JNaN]>> }

Sheets == {[cols |-> c, rows |-> r] : c \in ColumnSets, r \in UNION {RowSets(c) : c \in ColumnSets}}

Workbook(sheets) == [exists |-> TRUE, text |-> <<>>, sheets |-> sheets]

Workbooks ==
  {Workbook(ss) : ss \in {x \in UNION {[1..n -> Sheets] : n \in 1..MaxSheets} :
                            \A n \in 1..Len(x) : Len(x[n].rows) = 0 \/ Len(x[n].rows[1]) = Len(x[n].cols)}}

InitExcel ==
  \E in \in {NoFile, File(Garbage)} \cup Workbooks, out \in {NoFile, File(OldText)} :
    Start("excel", "read", in, out)

\* df.rename(columns=column_mapping)
Rename(cols) ==
  [n \in 1..Len(cols) |->
     IF DictHas(column_mapping, cols[n]) THEN DictGet(column_mapping, cols[n]) ELSE cols[n]]

\* df.to_dict('records'): one dict per row, keyed by the column labels.
ToRecords(sheet) ==
  LET cols == Rename(sheet.cols)
  IN JArr([n \in 1..Len(sheet.rows) |->
             JObj(DictFromPairs([k \in 1..Len(cols) |-> <<cols[k], sheet.rows[n][k]>>], Len(cols)))])

\* Lines 31-54.
JsonData(sheets) ==
  IF Len(sheets) = 1 THEN ToRecords(sheets[1])
  ELSE JObj([n \in 1..Len(sheets) |-> <<Label(SheetNames[n]), ToRecords(sheets[n])>>])

\* Lines 28-54.
ExcelRead ==
  /\ op = "excel" /\ pc = "read"
  /\ IF ~inFile.exists
     THEN /\ Raise(ExcelClauses, Exc("FileNotFoundError", "not found"))
          /\ UNCHANGED data
     ELSE IF "sheets" \notin DOMAIN inFile
     THEN /\ Raise(ExcelClauses, Exc("ValueError", "not a workbook"))
          /\ UNCHANGED data
     ELSE /\ data' = JsonData(inFile.sheets)
          /\ pc' = "write"
          /\ UNCHANGED outcome
  /\ UNCHANGED <<op, inFile, outFile, outFile0, fault, fixVars, mapVars, valVars>>

\* json.dump raises TypeError at a dict key that is no str (default=str is
\* not applied to keys).
RECURSIVE KeysAreStr(_)
KeysAreStr(v) ==
  IF v.t = "arr" THEN \A n \in 1..Len(v.items) : KeysAreStr(v.items[n])
  ELSE IF v.t = "obj"
       THEN \A n \in 1..Len(v.items) : v.items[n][1].t = "str" /\ KeysAreStr(v.items[n][2])
  ELSE TRUE

\* The value with each dict key as the text json.dump writes for it.
RECURSIVE Encodable(_)
Encodable(v) ==
  IF v.t = "arr" THEN JArr([n \in 1..Len(v.items) |-> Encodable(v.items[n])])
  ELSE IF v.t = "obj"
       THEN JObj([n \in 1..Len(v.items) |-> <<v.items[n][1].s, Encodable(v.items[n][2])>>])
  ELSE v

\* Lines 57-69.
ExcelWrite ==
  /\ op = "excel" /\ pc = "write"
  /\ \E f \in WriteFaults :
       /\ fault' = f
       /\ IF f # "none"
          THEN /\ outFile' = IF f = "dump" THEN Truncated ELSE outFile
               /\ Raise(ExcelClauses, Exc("OSError", f))
          ELSE IF ~KeysAreStr(data)
          THEN /\ outFile' = Truncated
               /\ Raise(ExcelClauses, Exc("TypeError", "keys must be str"))
          ELSE /\ outFile' = File(JsonDumps(Encodable(data)))
               /\ Return(data)
  /\ UNCHANGED <<op, inFile, outFile0, fixVars, mapVars, valVars, data>>

NextExcel == ExcelRead \/ ExcelWrite

(***************************************************************************)
(* One call of one of the utilities.                                       *)
(***************************************************************************)
Init == InitCheck \/ InitExcel \/ InitFix \/ InitMap

Next == NextCheck \/ NextExcel \/ NextFix \/ NextMap

Spec == Init /\ [][Next]_vars

(***************************************************************************)
(* Properties.                                                             *)
(***************************************************************************)
Finished == pc \in {"done", "validated"}

NoIOFault == fault = "none"

\* generate_country_mapping returned a mapping.
Generated == op = "map" /\ Finished /\ ret # None /\ ret # Pending

C2R(m) == DictGet(m.items, C2RKey).items
R2C(m) == DictGet(m.items, R2CKey).items

\* The countries in the n-th region list of a mapping.
Listed(m, n) == {R2C(m)[n][2].items[k].s : k \in 1..Len(R2C(m)[n][2].items)}

\* The regions of a mapping whose list holds the country.
RegionsOf(m, country) == {n \in 1..Len(R2C(m)) : country \in Listed(m, n)}

\* A field of an element of the input, trimmed; empty when the field is
\* absent or holds no string.
Trimmed(e, key) == IF Get(e, key).t = "str" THEN Strip(Get(e, key).s) ELSE <<>>

\* The element is a record whose Country and Region are strings that are
\* not empty after trimming.
Kept(e) ==
  /\ e.t = "obj"
  /\ Trimmed(e, CountryKey) # <<>>
  /\ Trimmed(e, RegionKey) # <<>>

Records == data.items

\* C1: for records with non-empty trimmed Country and Region, every key of
\* country_to_region is in the list of exactly one region and every listed
\* country is a key, also when a country occurs with different regions.
C1_ExactlyOneRegion ==
  (Generated /\ \A n \in 1..Len(Records) : Kept(Records[n])) =>
    /\ \A c \in DictKeys(C2R(ret)) : Cardinality(RegionsOf(ret, c)) = 1
    /\ \A n \in 1..Len(R2C(ret)) : Listed(ret, n) \subseteq DictKeys(C2R(ret))

\* C2: in the mapping returned, each country of a record that is not
\* skipped has the trimmed Region of the last such record with that country.
C2_LastSeenWins ==
  Generated =>
    \A n \in 1..Len(Records) :
      Kept(Records[n]) =>
        LET country == Trimmed(Records[n], CountryKey)
            last == Max({m \in 1..Len(Records) :
                           Kept(Records[m]) /\ Trimmed(Records[m], CountryKey) = country})
        IN /\ DictHas(C2R(ret), country)
           /\ DictGet(C2R(ret), country) = JStr(Trimmed(Records[last], RegionKey))

\* A mapping was returned for an input in which a later record gives a
\* country another region than an earlier one.
C2_Witness ==
  /\ Generated
  /\ \E m, n \in 1..Len(Records) :
       /\ m < n /\ Kept(Records[m]) /\ Kept(Records[n])
       /\ Trimmed(Records[m], CountryKey) = Trimmed(Records[n], CountryKey)
       /\ Trimmed(Records[m], RegionKey) # Trimmed(Records[n], RegionKey)

\* C3: in a mapping returned the countries of the region lists are the keys
\* of country_to_region, so validate_mapping on the file just written takes
\* the consistent branch; validate_mapping leaves the file as it found it
\* and returns True also when it reports a discrepancy.
C3_ConsistentAndOnlyChecked ==
  /\ Generated =>
       UNION {Listed(ret, n) : n \in 1..Len(R2C(ret))} = DictKeys(C2R(ret))
  /\ (Generated /\ pc = "validated") => (branch = "consistent" /\ valid = "True")
  /\ (op = "map" /\ pc = "validated" /\ branch = "discrepancy") => valid = "True"
  /\ (op = "map" /\ pc = "validated") =>
       outFile = IF Generated THEN File(JsonDumps(ret))
                 ELSE IF fault = "dump" THEN Truncated
                 ELSE outFile0

\* validate_mapping has run on the file written for an input in which one
\* country occurs with two regions.
C3_Witness ==
  /\ pc = "validated" /\ C2_Witness
  /\ Len(R2C(ret)) > 1

\* C4: whatever the Country and Region fields of the records hold (a string,
\* nothing, null), the call returns a mapping built from the records whose
\* trimmed Country and Region are not empty, skipping the others.
C4_SkipsAndContinues ==
  (op = "map" /\ Finished /\ NoIOFault /\ data # Pending
     /\ \A n \in 1..Len(Records) : Records[n].t = "obj") =>
    /\ Generated
    /\ DictKeys(C2R(ret)) =
         {Trimmed(Records[n], CountryKey) : n \in {m \in 1..Len(Records) : Kept(Records[m])}}

\* The text holds NaN where one of the patterns of lines 28-47 matches.
Recognized(text) ==
  \E i \in 1..Len(text) :
    \/ MatchEnd(text, i, NaN, {",", "}", "\n", "\r"}) > 0
    \/ MatchEnd(text, i, Quoted(QUOTE, NaN), {",", "}"}) > 0
    \/ MatchEnd(text, i, Quoted("'", NaN), {",", "}"}) > 0

Repairing == op = "fix" /\ pc = "done" /\ inFile.exists /\ NoIOFault

\* The text with every placeholder, bare or quoted, replaced by null.
Nulled(text) ==
  ReplaceAll(ReplaceAll(ReplaceAll(text, Quoted("'", NaN), Null), Quoted(QUOTE, NaN), Null),
             NaN, Null)

\* C5: for input that holds NaN in a recognized context the repair succeeds,
\* and the file it writes holds no NaN and is JSON.  Stated for the texts
\* whose placeholders are their only defect: those that are JSON once each
\* placeholder is null.
C5_RepairsRecognized ==
  (Repairing /\ Recognized(inFile.text) /\ Decode(Nulled(inFile.text), FALSE).ok) =>
    /\ ret # None
    /\ outFile.exists /\ outFile # outFile0
    /\ ~Contains(outFile.text, NaN)
    /\ Decode(outFile.text, FALSE).ok

\* C6: for input that is JSON already, the structure returned and written
\* is the structure the input parses to.  Stated for the documents whose
\* top level is an object or an array.
C6_Idempotent ==
  (Repairing /\ Decode(inFile.text, FALSE).ok
     /\ Decode(inFile.text, FALSE).val.t \in {"obj", "arr"}) =>
    /\ ret = Decode(inFile.text, FALSE).val
    /\ outFile.exists
    /\ JsonLoads(outFile.text).ok
    /\ JsonLoads(outFile.text).val = ret

\* The position is one from which a step of the operation is defined.
CanStep ==
  \/ op = "check" /\ pc = "check"
  \/ op = "excel" /\ pc \in {"read", "write"}
  \/ op = "fix" /\ pc \in {"read", "substitute", "parse", "aggressive", "retry", "write", "verify"}
  \/ op = "map" /\ pc \in {"load", "loop", "done"}

\* The number of steps the call can still take, at most.
Remaining ==
  CASE pc = "validated" -> 0
    [] pc = "done" -> 1
    [] pc = "verify" -> 2
    [] pc = "write" -> 3
    [] pc = "retry" -> 4
    [] pc = "aggressive" -> 5
    [] pc = "parse" -> 6
    [] pc = "substitute" -> 7
    [] pc = "loop" -> Len(data.items) - idx + 3
    [] pc = "check" -> 2
    [] OTHER -> Len(inFile.text) + 8

C7_Returns ==
  /\ ~escaped
  /\ Finished \/ CanStep
  /\ Finished => ret # Pending
  /\ (Finished /\ raised # NoExc) => (ret = None /\ handler # "none")
  /\ (op = "check" /\ Finished /\ ~inFile.exists) => (ret = None /\ handler = "Exception")
  /\ (op = "map" /\ Finished /\ ~inFile.exists) =>
       (ret = None /\ handler = "FileNotFoundError")
  /\ (op = "map" /\ Finished /\ inFile.exists /\ ~JsonLoads(inFile.text).ok) =>
       (ret = None /\ handler = "JSONDecodeError")
  /\ (op = "map" /\ Finished /\ inFile.exists /\ JsonLoads(inFile.text).ok
        /\ JsonLoads(inFile.text).val.t # "arr") =>
       (ret = None /\ handler = "Exception"
          /\ raised = Exc("ValueError", "Data must be a list of records"))

\* C7: no exception leaves any of the four operations: each call ends (every
\* step brings it nearer to its end) and returns its result or None;
\* check_json_structure on a missing file returns None;
\* generate_country_mapping returns None on a missing file, on text that is
\* no JSON and on a top level that is no list, with a report of its own for
\* each.
C7_NeverRaises == [](C7_Returns) /\ [][Remaining' < Remaining]_vars

\* check_json_structure has returned None for a file that does not exist.
C7_Witness ==
  op = "check" /\ pc = "done" /\ ~inFile.exists /\ ret = None /\ handler = "Exception"

\* C8: when the converter, the generator or the repair tool returns None
\* (a failed verification read of the repair tool aside), the output file is
\* as it was before the call.  Stated for calls in which no read or write
\* fails at the device, so that only what the data does can break it.
C8_NoOutputOnFailure ==
  (op \in {"excel", "map", "fix"} /\ Finished /\ ret = None /\ NoIOFault) =>
    outFile = outFile0

IsPrefix(a, b) == Len(a) <= Len(b) /\ SubSeq(b, 1, Len(a)) = a

Direct == <<"substitutions", "parse", "write", "verify">>
Fallback == <<"substitutions", "parse", "aggressive", "parse", "write", "verify">>

\* C9: the steps of fix_json_complete come in the order substitutions,
\* parse, at most one aggressive pass and one more parse, write, verify; the
\* file is written only after a parse succeeded; when both parses fail None
\* is returned and nothing written; when the verification read fails None
\* is returned and the file just written stays.
C9_StepOrder ==
  op = "fix" =>
    /\ IsPrefix(trace, Direct) \/ IsPrefix(trace, Fallback)
    /\ outFile # outFile0 => (data # Pending /\ \E n \in 1..Len(trace) : trace[n] = "write")
    /\ (pc = "done" /\ trace = SubSeq(Fallback, 1, 4)) => (ret = None /\ outFile = outFile0)
    /\ (pc = "done" /\ fault = "read") => (ret = None /\ outFile = File(JsonDumps(data)))

\* The verification read has failed after the file was written.
C9_Witness ==
  /\ op = "fix" /\ pc = "done" /\ fault = "read"
  /\ trace = Direct /\ outFile # outFile0 /\ ret = None

====
